---- MODULE Spec2Model ----
(***************************************************************************)
(* A model of go-tmx: the TMX reader (tmx/tmx.go) and the tmx2console      *)
(* exporter (tmx2console.go, gba.go, property.go).                         *)
(*                                                                         *)
(* Representation.                                                         *)
(*  - A GID (uint32) is kept as its bit fields: [H, V, D, bare], the bits  *)
(*    31, 30, 29 and the low 29 bits, so that no 32-bit arithmetic is      *)
(*    needed: gid == 0 is "no bit set", gid &^ GIDFlip is the field bare.  *)
(*  - A pointer to a tileset (&m.Tilesets[i]) is the index i, 1-based;     *)
(*    the nil pointer is 0.                                                *)
(*  - A string that the code parses is a sequence of one-character         *)
(*    strings; a string that is only compared is a TLA+ string.            *)
(*  - An error value is a string naming it; "nil" is no error.             *)
(***************************************************************************)
EXTENDS Integers, Sequences, FiniteSets, TLC

VARIABLES
    file,   \* the parsed input file the next Read consumes
    m,      \* the *Map that Read returned (NoMap before, and on error)
    pc,     \* position of the program
    li,     \* Do: index of the next layer to export
    out,    \* Do: one record per output file opened so far
    err,    \* the error the operation returned
    gba,    \* the GBA target: its two caches
    call,   \* the last direct call of a library function and its result
    batch   \* main: the files already processed, the layers already allocated

vars == <<file, m, pc, li, out, err, gba, call, batch>>

NoMap == [nil |-> TRUE]
NoCall == [fn |-> "none"]
NoBatch == [done |-> 0, alloc |-> 0]

(***************************************************************************)
(* Bounds of the model.                                                    *)
(***************************************************************************)
MaxBare == 9        \* bare ids 0..MaxBare are tried by direct DecodeGID calls
MaxFirstGID == 4    \* first global ids 1..MaxFirstGID of direct-call tilesets

(***************************************************************************)
(* GIDs and decoded tiles                                                  *)
(***************************************************************************)
\* A uint32 tile id as bit fields.
GID(h, v, d, bare) == [H |-> h, V |-> v, D |-> d, bare |-> bare]

\* gid == 0
GIDIsZero(gid) == ~gid.H /\ ~gid.V /\ ~gid.D /\ gid.bare = 0

\* gid &^ GIDFlip
GIDBare(gid) == gid.bare

\* type DecodedTile struct
DecodedTile(id, tileset, hflip, vflip, isNil) ==
    [ID |-> id, Tileset |-> tileset, HorizontalFlip |-> hflip,
     VerticalFlip |-> vflip, Nil |-> isNil]

\* var NilTile = &DecodedTile{Nil: false}
NilTile == DecodedTile(0, 0, FALSE, FALSE, FALSE)

\* func (t *DecodedTile) IsNil() bool
IsNil(t) == t.Nil

\* The flip flags a DecodedTile records: the struct has fields for two.
TileFlips(t) ==
    (IF t.HorizontalFlip THEN {"H"} ELSE {}) \cup (IF t.VerticalFlip THEN {"V"} ELSE {})

\* The flip bits set in a raw id.
GIDFlips(gid) ==
    (IF gid.H THEN {"H"} ELSE {}) \cup (IF gid.V THEN {"V"} ELSE {})
        \cup (IF gid.D THEN {"D"} ELSE {})

\* The loop of DecodeGID: i runs from len(m.Tilesets)-1 down to 0 (here from
\* Len down to 1); the first tileset with FirstGID <= gidBare decides.
RECURSIVE DecodeGIDScan(_, _, _)
DecodeGIDScan(tilesets, gid, i) ==
    IF i = 0
    THEN [tile |-> "nil", err |-> "InvalidGID"]
    ELSE IF tilesets[i].FirstGID <= GIDBare(gid)
         THEN [tile |-> DecodedTile(GIDBare(gid) - tilesets[i].FirstGID, i,
                                    gid.H, gid.V, FALSE),
               err |-> "nil"]
         ELSE DecodeGIDScan(tilesets, gid, i - 1)

\* func (m *Map) DecodeGID(gid GID) (*DecodedTile, error)
DecodeGID(tilesets, gid) ==
    IF GIDIsZero(gid)
    THEN [tile |-> NilTile, err |-> "nil"]
    ELSE DecodeGIDScan(tilesets, gid, Len(tilesets))

(***************************************************************************)
(* Layer payload decoding                                                  *)
(***************************************************************************)
Digits == {"0", "1", "2", "3", "4", "5", "6", "7", "8", "9"}

DigitVal(c) == CASE c = "0" -> 0 [] c = "1" -> 1 [] c = "2" -> 2 [] c = "3" -> 3
                 [] c = "4" -> 4 [] c = "5" -> 5 [] c = "6" -> 6 [] c = "7" -> 7
                 [] c = "8" -> 8 [] c = "9" -> 9

\* The digit loop of strconv.ParseUint on a sequence of characters.  The value is
\* accumulated in two 16-bit limbs <<hi, lo>> (value = hi * 65536 + lo), which
\* keeps every intermediate below 2^31; "range" is strconv's ErrRange and
\* "syntax" its ErrSyntax.
RECURSIVE ParseUint32From(_, _, _, _), ParseUint32Digit(_, _, _, _)
ParseUint32Digit(s, i, h, l) ==
    IF h + (l \div 65536) > 65535
    THEN [hi |-> 65535, lo |-> 65535, err |-> "range"]
    ELSE ParseUint32From(s, i + 1, h + (l \div 65536), l % 65536)

ParseUint32From(s, i, hi, lo) ==
    IF i > Len(s)
    THEN [hi |-> hi, lo |-> lo, err |-> "nil"]
    ELSE IF s[i] \notin Digits
         THEN [hi |-> 0, lo |-> 0, err |-> "syntax"]
         ELSE ParseUint32Digit(s, i, hi * 10, lo * 10 + DigitVal(s[i]))

\* strconv.ParseUint(s, 10, bitSize), bitSize 16 or 32.
ParseUintRange(r, bitSize) ==
    IF r.err = "nil" /\ bitSize = 16 /\ r.hi > 0
    THEN [hi |-> 0, lo |-> 65535, err |-> "range"]
    ELSE r

ParseUint(s, bitSize) ==
    IF Len(s) = 0
    THEN [hi |-> 0, lo |-> 0, err |-> "syntax"]
    ELSE ParseUintRange(ParseUint32From(s, 1, 0, 0), bitSize)

\* GID(d) of a parsed uint32 held in two 16-bit limbs.
GIDOfLimbs(hi, lo) ==
    GID(hi >= 32768, (hi % 32768) >= 16384, (hi % 16384) >= 8192,
        (hi % 8192) * 65536 + lo)

\* strings.Map(cleaner, s): keeps the decimal digits and the commas.
RECURSIVE CleanCSV(_)
CleanCSV(s) ==
    IF s = <<>>
    THEN <<>>
    ELSE IF Head(s) \in Digits \/ Head(s) = ","
         THEN <<Head(s)>> \o CleanCSV(Tail(s))
         ELSE CleanCSV(Tail(s))

\* strings.Split(s, ","): the fields between the commas, empty ones kept;
\* cur is the field being read.
RECURSIVE SplitComma(_, _)
SplitComma(s, cur) ==
    IF s = <<>>
    THEN <<cur>>
    ELSE IF Head(s) = ","
         THEN <<cur>> \o SplitComma(Tail(s), <<>>)
         ELSE SplitComma(Tail(s), Append(cur, Head(s)))

\* The loop of decodeCSV over the fields: the first parse error ends it.
RECURSIVE DecodeCSVFields(_, _, _), DecodeCSVField(_, _, _, _)
DecodeCSVField(d, str, i, decoded) ==
    IF d.err # "nil"
    THEN [gids |-> <<>>, err |-> d.err]
    ELSE DecodeCSVFields(str, i + 1, Append(decoded, GIDOfLimbs(d.hi, d.lo)))

DecodeCSVFields(str, i, decoded) ==
    IF i > Len(str)
    THEN [gids |-> decoded, err |-> "nil"]
    ELSE DecodeCSVField(ParseUint(str[i], 32), str, i, decoded)

\* func (d *Data) decodeCSV() (data []GID, err error)
decodeCSV(d) == DecodeCSVFields(SplitComma(CleanCSV(d.RawData), <<>>), 1, <<>>)

\* func (m *Map) decodeLayerXML(l *Layer) (err error)
decodeLayerXML(width, height, l) ==
    IF Len(l.Data.DataTiles) # width * height
    THEN [gids |-> <<>>, err |-> "InvalidDecodedDataLen"]
    ELSE [gids |-> l.Data.DataTiles, err |-> "nil"]

\* func (m *Map) decodeLayerCSV(l *Layer) error
decodeLayerCSVOf(width, height, r) ==
    IF r.err # "nil"
    THEN r
    ELSE IF Len(r.gids) # width * height
         THEN [gids |-> <<>>, err |-> "InvalidDecodedDataLen"]
         ELSE r

decodeLayerCSV(width, height, l) == decodeLayerCSVOf(width, height, decodeCSV(l.Data))

(***************************************************************************)
(* base64 payloads.  A byte is a number 0..255, a byte string a sequence   *)
(* of bytes.  The readers of the Go library that decodeBase64 chains are   *)
(* modelled on what they do to the text: base64 text with padding, and     *)
(* zlib and gzip streams made of stored (uncompressed) deflate blocks,     *)
(* gzip members without optional header fields.                            *)
(***************************************************************************)
\* F applied to the value of x, x being evaluated once.
Eval(F(_), x) == CHOOSE r \in { F(v) : v \in {x} } : TRUE

WhiteSpace == {" ", "\t", "\n", "\r"}

\* bytes.TrimSpace(d.RawData)
RECURSIVE TrimLeft(_), TrimRight(_)
TrimLeft(s) == IF s # <<>> /\ Head(s) \in WhiteSpace THEN TrimLeft(Tail(s)) ELSE s
TrimRight(s) ==
    IF s # <<>> /\ s[Len(s)] \in WhiteSpace THEN TrimRight(SubSeq(s, 1, Len(s) - 1)) ELSE s
TrimSpace(s) == TrimRight(TrimLeft(s))

\* The alphabet of base64.StdEncoding; the value of a character is its
\* position less one.
StdEncoding ==
    << "A", "B", "C", "D", "E", "F", "G", "H", "I", "J", "K", "L", "M", "N", "O", "P",
       "Q", "R", "S", "T", "U", "V", "W", "X", "Y", "Z", "a", "b", "c", "d", "e", "f",
       "g", "h", "i", "j", "k", "l", "m", "n", "o", "p", "q", "r", "s", "t", "u", "v",
       "w", "x", "y", "z", "0", "1", "2", "3", "4", "5", "6", "7", "8", "9", "+", "/" >>

StdChars == { StdEncoding[i] : i \in 1..64 }
StdVal(c) == (CHOOSE i \in 1..64 : StdEncoding[i] = c) - 1

\* The bytes of a group of four characters, two or three of them when the
\* group ends in padding.
Quantum3(a, b, c, d) == <<a * 4 + (b \div 16), (b % 16) * 16 + (c \div 4), (c % 4) * 64 + d>>
Quantum2(a, b, c) == <<a * 4 + (b \div 16), (b % 16) * 16 + (c \div 4)>>
Quantum1(a, b) == <<a * 4 + (b \div 16)>>

\* The reader base64.NewDecoder(base64.StdEncoding, r) read to its end: the
\* bytes of the groups of four characters, newlines skipped; a character
\* outside the alphabet, misplaced padding or an incomplete group ends the
\* stream with an error after the bytes decoded so far.
RECURSIVE Base64From(_, _, _)
Base64From(s, i, data) ==
    IF i > Len(s)
    THEN [data |-> data, err |-> "nil"]
    ELSE IF i + 3 > Len(s) \/ s[i] \notin StdChars \/ s[i + 1] \notin StdChars
         THEN [data |-> data, err |-> "base64: illegal data"]
         ELSE IF s[i + 2] \in StdChars /\ s[i + 3] \in StdChars
              THEN Base64From(s, i + 4,
                              data \o Quantum3(StdVal(s[i]), StdVal(s[i + 1]),
                                               StdVal(s[i + 2]), StdVal(s[i + 3])))
              ELSE IF i + 3 = Len(s) /\ s[i + 2] \in StdChars /\ s[i + 3] = "="
                   THEN [data |-> data \o Quantum2(StdVal(s[i]), StdVal(s[i + 1]),
                                                    StdVal(s[i + 2])),
                         err |-> "nil"]
                   ELSE IF i + 3 = Len(s) /\ s[i + 2] = "=" /\ s[i + 3] = "="
                        THEN [data |-> data \o Quantum1(StdVal(s[i]), StdVal(s[i + 1])),
                              err |-> "nil"]
                        ELSE [data |-> data, err |-> "base64: illegal data"]

Base64Decode(s) ==
    Eval(LAMBDA t : Base64From(t, 1, <<>>), SelectSeq(s, LAMBDA c : c \notin {"\n", "\r"}))

\* The error a reader reports when its input ends too early: the error of the
\* reader below it, if that one failed.
Short(inErr) == IF inErr # "nil" THEN inErr ELSE "unexpected EOF"

\* The deflate stream that starts at byte i of s, blocks being stored blocks:
\* a header byte (bit 0 marks the last block, bits 1-2 are 0), LEN and its
\* complement NLEN as two little-endian bytes each, LEN bytes of data.
RECURSIVE Inflate(_, _, _, _), InflateBlock(_, _, _, _, _, _)
InflateBlock(s, i, data, inErr, len, nlen) ==
    IF len + nlen # 65535
    THEN [data |-> data, next |-> i, err |-> "flate: corrupt input"]
    ELSE IF i + 4 + len > Len(s)
         THEN [data |-> data \o SubSeq(s, i + 5, Len(s)), next |-> Len(s) + 1,
               err |-> Short(inErr)]
         ELSE IF s[i] % 2 = 1
              THEN [data |-> data \o SubSeq(s, i + 5, i + 4 + len),
                    next |-> i + 5 + len, err |-> "nil"]
              ELSE Inflate(s, i + 5 + len, data \o SubSeq(s, i + 5, i + 4 + len), inErr)

Inflate(s, i, data, inErr) ==
    IF i + 4 > Len(s)
    THEN [data |-> data, next |-> Len(s) + 1, err |-> Short(inErr)]
    ELSE IF (s[i] \div 2) % 4 # 0
         THEN [data |-> data, next |-> i, err |-> "flate: corrupt input"]
         ELSE InflateBlock(s, i, data, inErr,
                           s[i + 1] + 256 * s[i + 2], s[i + 3] + 256 * s[i + 4])

\* hash/adler32 of a byte string, as the four big-endian bytes of a zlib
\* trailer; ab holds the two sums.
AdlerSum(ab, b) == <<(ab[1] + b) % 65521, (ab[2] + ab[1] + b) % 65521>>

RECURSIVE AdlerFrom(_, _, _)
AdlerFrom(data, i, ab) ==
    IF i > Len(data)
    THEN ab
    ELSE AdlerFrom(data, i + 1, Eval(LAMBDA v : AdlerSum(v, data[i]), ab))

AdlerBytes(ab) == <<ab[2] \div 256, ab[2] % 256, ab[1] \div 256, ab[1] % 256>>

Adler32(data) == Eval(AdlerBytes, AdlerFrom(data, 1, <<1, 0>>))

\* a XOR b for numbers of n bits.
RECURSIVE Xor(_, _, _)
Xor(a, b, n) ==
    IF n = 0 THEN 0 ELSE 2 * Xor(a \div 2, b \div 2, n - 1) + ((a + b) % 2)

\* hash/crc32 (IEEE) of a byte string.  The 32-bit register c is kept as two
\* 16-bit halves <<hi, lo>>; one round shifts it right by one bit and, when a
\* 1 was shifted out, XORs it with the reversed polynomial 0xEDB88320.
CRCShift(c) ==
    IF c[2] % 2 = 1
    THEN <<Xor(c[1] \div 2, 60856, 16), Xor((c[2] \div 2) + (c[1] % 2) * 32768, 33568, 16)>>
    ELSE <<c[1] \div 2, (c[2] \div 2) + (c[1] % 2) * 32768>>

RECURSIVE CRCRounds(_, _)
CRCRounds(c, n) == IF n = 0 THEN c ELSE CRCRounds(Eval(CRCShift, c), n - 1)

CRCByte(c, b) == CRCRounds(<<c[1], Xor(c[2], b, 16)>>, 8)

RECURSIVE CRCFrom(_, _, _)
CRCFrom(data, i, c) ==
    IF i > Len(data)
    THEN c
    ELSE CRCFrom(data, i + 1, Eval(LAMBDA v : CRCByte(v, data[i]), c))

\* The complement of the register as the four little-endian bytes of a gzip
\* trailer.
CRCBytes(c) ==
    <<(65535 - c[2]) % 256, (65535 - c[2]) \div 256,
      (65535 - c[1]) % 256, (65535 - c[1]) \div 256>>

CRC32(data) == Eval(CRCBytes, CRCFrom(data, 1, <<65535, 65535>>))

\* The length of a byte string as four little-endian bytes (ISIZE).
SizeBytes(n) == <<n % 256, (n \div 256) % 256, (n \div 65536) % 256, (n \div 16777216) % 256>>

\* zlib.NewReader(encr) read to its end: the header (deflate, window of at
\* most 32K, no dictionary, check bits), the deflate stream, the Adler-32 of
\* the data; r is the result of the deflate stream.  What follows the
\* checksum is not read.
ZlibTrailer(s, r, inErr) ==
    IF r.err # "nil"
    THEN [data |-> r.data, err |-> r.err]
    ELSE IF r.next + 3 > Len(s)
         THEN [data |-> r.data, err |-> Short(inErr)]
         ELSE IF SubSeq(s, r.next, r.next + 3) # Adler32(r.data)
              THEN [data |-> r.data, err |-> "zlib: invalid checksum"]
              ELSE [data |-> r.data, err |-> "nil"]

ZlibRead(b) ==
    IF Len(b.data) < 2
    THEN [data |-> <<>>, err |-> Short(b.err)]
    ELSE IF \/ b.data[1] % 16 # 8
            \/ b.data[1] \div 16 > 7
            \/ (b.data[1] * 256 + b.data[2]) % 31 # 0
            \/ (b.data[2] \div 32) % 2 = 1
         THEN [data |-> <<>>, err |-> "zlib: invalid header"]
         ELSE Eval(LAMBDA r : ZlibTrailer(b.data, r, b.err), Inflate(b.data, 3, <<>>, b.err))

\* gzip.NewReader(encr) read to its end: for each member the ten bytes of the
\* header, the deflate stream, the CRC-32 and the length of the data; members
\* follow each other until the input ends.  r is the result of the deflate
\* stream of the member, data the data of the members before it.
RECURSIVE GzipMember(_, _, _, _), GzipTrailer(_, _, _, _)
GzipTrailer(s, r, data, inErr) ==
    IF r.err # "nil"
    THEN [data |-> data \o r.data, err |-> r.err]
    ELSE IF r.next + 7 > Len(s)
         THEN [data |-> data \o r.data, err |-> Short(inErr)]
         ELSE IF SubSeq(s, r.next, r.next + 7) # CRC32(r.data) \o SizeBytes(Len(r.data))
              THEN [data |-> data \o r.data, err |-> "gzip: invalid checksum"]
              ELSE IF r.next + 8 > Len(s)
                   THEN [data |-> data \o r.data, err |-> inErr]
                   ELSE GzipMember(s, r.next + 8, data \o r.data, inErr)

GzipMember(s, i, data, inErr) ==
    IF i + 9 > Len(s)
    THEN [data |-> data, err |-> Short(inErr)]
    ELSE IF s[i] # 31 \/ s[i + 1] # 139 \/ s[i + 2] # 8 \/ s[i + 3] # 0
         THEN [data |-> data, err |-> "gzip: invalid header"]
         ELSE Eval(LAMBDA r : GzipTrailer(s, r, data, inErr), Inflate(s, i + 10, <<>>, inErr))

GzipRead(b) == GzipMember(b.data, 1, <<>>, b.err)

\* The switch of decodeBase64 with the default case reading the bytes as they are.
decodeBase64Raw(compression, b) ==
    CASE compression = "gzip" -> GzipRead(b)
      [] compression = "zlib" -> ZlibRead(b)
      [] OTHER                -> b

\* func (d *Data) decodeBase64() (data []byte, err error), b being the
\* base64 reader read to its end.
decodeBase64Of(compression, b) ==
    CASE compression = "gzip" -> GzipRead(b)
      [] compression = "zlib" -> ZlibRead(b)
      [] compression = ""     -> b
      [] OTHER                -> [data |-> <<>>, err |-> "UnknownCompression"]

decodeBase64(d) ==
    Eval(LAMBDA b : decodeBase64Of(d.Compression, b), Base64Decode(TrimSpace(d.RawData)))

\* The four bytes of a cell read most significant byte first.
GIDOfBytesBE(b0, b1, b2, b3) ==
    GID(b0 >= 128, (b0 % 128) >= 64, (b0 % 64) >= 32,
        (b0 % 32) * 16777216 + b1 * 65536 + b2 * 256 + b3)

\* GID(dataBytes[j]) + GID(dataBytes[j+1])<<8 + GID(dataBytes[j+2])<<16 +
\* GID(dataBytes[j+3])<<24, as the bit fields of the id.
GIDOfBytes(b0, b1, b2, b3) ==
    GID(b3 >= 128, (b3 % 128) >= 64, (b3 % 64) >= 32,
        (b3 % 32) * 16777216 + b2 * 65536 + b1 * 256 + b0)

\* The loops of decodeLayerBase64: cell (x, y) takes the four bytes from j on,
\* j advancing by 4 per cell in row-major order.
GIDsOfBytes(width, height, dataBytes) ==
    [c \in 1..(width * height) |->
        GIDOfBytes(dataBytes[4 * c - 3], dataBytes[4 * c - 2],
                   dataBytes[4 * c - 1], dataBytes[4 * c])]

\* decodeLayerBase64 rejecting only the payloads that are too long, and
\* reading the whole cells of a shorter one.
decodeLayerBase64OfShort(width, height, r) ==
    IF r.err # "nil"
    THEN [gids |-> <<>>, err |-> r.err]
    ELSE IF Len(r.data) > width * height * 4
         THEN [gids |-> <<>>, err |-> "InvalidDecodedDataLen"]
         ELSE [gids |-> GIDsOfBytes(1, Len(r.data) \div 4, r.data), err |-> "nil"]

\* func (m *Map) decodeLayerBase64(l *Layer) error, r being the result of
\* l.Data.decodeBase64().
decodeLayerBase64Of(width, height, r) ==
    IF r.err # "nil"
    THEN [gids |-> <<>>, err |-> r.err]
    ELSE IF Len(r.data) # width * height * 4
         THEN [gids |-> <<>>, err |-> "InvalidDecodedDataLen"]
         ELSE [gids |-> GIDsOfBytes(width, height, r.data), err |-> "nil"]

decodeLayerBase64(width, height, l) ==
    Eval(LAMBDA r : decodeLayerBase64Of(width, height, r), decodeBase64(l.Data))

\* func (m *Map) decodeLayer(l *Layer) error
decodeLayer(width, height, l) ==
    CASE l.Data.Encoding = "csv"    -> decodeLayerCSV(width, height, l)
      [] l.Data.Encoding = "base64" -> decodeLayerBase64(width, height, l)
      [] l.Data.Encoding = ""       -> decodeLayerXML(width, height, l)
      [] OTHER                      -> [gids |-> <<>>, err |-> "UnknownEncoding"]

\* func (m *Map) decodeLayers() error: layers in order, the first error ends
\* it; done holds the GIDs of the layers decoded so far.
RECURSIVE decodeLayersFrom(_, _, _), decodeLayersNext(_, _, _, _)
decodeLayersNext(r, f, i, done) ==
    IF r.err # "nil"
    THEN [gids |-> done, err |-> r.err]
    ELSE decodeLayersFrom(f, i + 1, Append(done, r.gids))

decodeLayersFrom(f, i, done) ==
    IF i > Len(f.Layers)
    THEN [gids |-> done, err |-> "nil"]
    ELSE decodeLayersNext(decodeLayer(f.Width, f.Height, f.Layers[i]), f, i, done)

decodeLayers(f) == decodeLayersFrom(f, 1, <<>>)

(***************************************************************************)
(* Read: decode, resolve, infer the tileset of each layer                  *)
(***************************************************************************)
\* The loop of Read that resolves the ids of one layer: the first error ends
\* it.  r is the result of DecodeGID for cell j.
RECURSIVE DecodeTilesFrom(_, _, _, _), DecodeTilesNext(_, _, _, _, _)
DecodeTilesNext(r, tilesets, gids, j, done) ==
    IF r.err # "nil"
    THEN [tiles |-> done, err |-> r.err]
    ELSE DecodeTilesFrom(tilesets, gids, j + 1, Append(done, r.tile))

DecodeTilesFrom(tilesets, gids, j, done) ==
    IF j > Len(gids)
    THEN [tiles |-> done, err |-> "nil"]
    ELSE DecodeTilesNext(DecodeGID(tilesets, gids[j]), tilesets, gids, j, done)

\* The loop of Read over the layers, resolving every id of every layer.
RECURSIVE DecodeAllFrom(_, _, _, _), DecodeAllNext(_, _, _, _, _)
DecodeAllNext(r, tilesets, gidsOf, i, done) ==
    IF r.err # "nil"
    THEN [tiles |-> done, err |-> r.err]
    ELSE DecodeAllFrom(tilesets, gidsOf, i + 1, Append(done, r.tiles))

DecodeAllFrom(tilesets, gidsOf, i, done) ==
    IF i > Len(gidsOf)
    THEN [tiles |-> done, err |-> "nil"]
    ELSE DecodeAllNext(DecodeTilesFrom(tilesets, gidsOf[i], 1, <<>>), tilesets, gidsOf, i, done)

\* The loop of getTileset: tileset is the local variable (0 is nil).
RECURSIVE getTilesetFrom(_, _, _)
getTilesetFrom(tiles, i, tileset) ==
    IF i > Len(tiles)
    THEN IF tileset = 0
         THEN [tileset |-> 0, isEmpty |-> TRUE, usesMultipleTilesets |-> FALSE]
         ELSE [tileset |-> tileset, isEmpty |-> FALSE, usesMultipleTilesets |-> FALSE]
    ELSE IF ~tiles[i].Nil
         THEN IF tileset = 0
              THEN getTilesetFrom(tiles, i + 1, tiles[i].Tileset)
              ELSE IF tileset # tiles[i].Tileset
                   THEN [tileset |-> tileset, isEmpty |-> FALSE,
                         usesMultipleTilesets |-> TRUE]
                   ELSE getTilesetFrom(tiles, i + 1, tileset)
         ELSE getTilesetFrom(tiles, i + 1, tileset)

\* func getTileset(m *Map, l *Layer) (tileset *Tileset, isEmpty, usesMultipleTilesets bool)
getTileset(tiles) == getTilesetFrom(tiles, 1, 0)

\* A layer of the map with its derived fields.
Layer(l, gids, tiles, tileset, empty) ==
    [Name |-> l.Name, Properties |-> l.Properties, Data |-> l.Data,
     GIDs |-> gids, DecodedTiles |-> tiles, Tileset |-> tileset, Empty |-> empty]

\* The last loop of Read with the assignment of l.Empty left out.
SetTilesetNoEmpty(l, gids, tiles, t) ==
    IF t.usesMultipleTilesets
    THEN Layer(l, gids, tiles, 0, FALSE)
    ELSE Layer(l, gids, tiles, t.tileset, FALSE)

\* The body of the last loop of Read, t being the result of getTileset:
\* Tileset and Empty keep their zero values when the layer uses several tilesets.
SetTileset(l, gids, tiles, t) ==
    IF t.usesMultipleTilesets
    THEN Layer(l, gids, tiles, 0, FALSE)
    ELSE Layer(l, gids, tiles, t.tileset, t.isEmpty)

\* Read once every id is resolved: the map it returns.
ReadResolved(f, gidsOf, tilesOf) ==
    [nil |-> FALSE, Width |-> f.Width, Height |-> f.Height, Tilesets |-> f.Tilesets,
     Layers |-> [i \in 1..Len(f.Layers) |->
                   SetTileset(f.Layers[i], gidsOf[i], tilesOf[i], getTileset(tilesOf[i]))]]

\* Read after the loop that resolves the ids, t being its result.
ReadDecoded(f, gidsOf, t) ==
    IF t.err # "nil"
    THEN [m |-> NoMap, err |-> t.err]
    ELSE [m |-> ReadResolved(f, gidsOf, t.tiles), err |-> "nil"]

\* Read after decodeLayers, d being its result.
ReadLayers(f, d) ==
    IF d.err # "nil"
    THEN [m |-> NoMap, err |-> d.err]
    ELSE ReadDecoded(f, d.gids, DecodeAllFrom(f.Tilesets, d.gids, 1, <<>>))

\* func Read(r io.Reader) (*Map, error), on the parsed file f.
Read(f) == ReadLayers(f, decodeLayers(f))

(***************************************************************************)
(* Properties                                                              *)
(***************************************************************************)
\* func (p *Properties) Get(name string) (value []string)
RECURSIVE PropertiesGet(_, _)
PropertiesGet(p, name) ==
    IF p = <<>>
    THEN <<>>
    ELSE IF Head(p).Name = name
         THEN <<Head(p).Value>> \o PropertiesGet(Tail(p), name)
         ELSE PropertiesGet(Tail(p), name)

\* The body of GetProperty(p *tmx.Properties, ...) after values := p.Get(name);
\* value is the named result, still "" where its length is tested.
GetPropertyOf(values, value) ==
    IF Len(values) > 1
    THEN [value |-> <<>>, err |-> "PropertyNotUnique"]
    ELSE IF Len(value) = 0
         THEN [value |-> <<>>, err |-> "PropertyUnavailable"]
         ELSE [value |-> values[1], err |-> "nil"]

\* func GetProperty(p *tmx.Properties, name string) (value string, err error):
\* the definition that the calls of gba.go, GetProperty(&l.Properties, ...),
\* resolve to.
GetProperty(p, name) == GetPropertyOf(PropertiesGet(p, name), <<>>)

\* The body of GetProperty(properties []tmx.Property, ...) after its loop.
GetPropertyOfValues(values) ==
    IF Len(values) > 1
    THEN [value |-> <<>>, err |-> "PropertyNotUnique"]
    ELSE IF Len(values) = 0
         THEN [value |-> <<>>, err |-> "PropertyUnavailable"]
         ELSE [value |-> values[1], err |-> "nil"]

\* func GetProperty(properties []tmx.Property, name string) (value string, err error):
\* the definition that the calls of Do, GetProperty(l.Properties, ...),
\* resolve to.
GetPropertyOfList(properties, name) == GetPropertyOfValues(PropertiesGet(properties, name))

StrTrue == <<"t", "r", "u", "e">>

(***************************************************************************)
(* The GBA target                                                          *)
(***************************************************************************)
GBAHFlip == 1024
GBAVFlip == 2048

\* x | bit, for bit a power of two
BitOr(x, bit) == IF (x \div bit) % 2 = 1 THEN x ELSE x + bit

\* A new(GBA): both caches nil.  A cache is a function from layer pointers.
NewGBA == [isAffineCache |-> <<>>, nilTileCache |-> <<>>]

\* isAffine on a cache miss: the value is stored and returned.
isAffineMiss(g, ptr, affine) ==
    [affine |-> affine, g |-> [g EXCEPT !.isAffineCache = (ptr :> affine) @@ @]]

\* func (g *GBA) isAffine(l *tmx.Layer) bool; ptr is the pointer l.
isAffine(g, l, ptr) ==
    IF ptr \in DOMAIN g.isAffineCache
    THEN [affine |-> g.isAffineCache[ptr], g |-> g]
    ELSE isAffineMiss(g, ptr, GetProperty(l.Properties, "Affine").value = StrTrue)

\* The return of MaxTiles, a being the result of g.isAffine(l).
MaxTilesOf(a) == [n |-> IF a.affine THEN 255 ELSE 511, g |-> a.g]

\* func (g *GBA) MaxTiles(m *tmx.Map, l *tmx.Layer) int
MaxTiles(g, l, ptr) == MaxTilesOf(isAffine(g, l, ptr))

\* A uint8 or uint16 value as ScreenblockEntry returns it.
Uint8(v) == [bits |-> 8, v |-> v % 256]
Uint16(v) == [bits |-> 16, v |-> v % 65536]

\* nilTile on a cache miss: the value stored in the cache, parsed being the
\* result of strconv.ParseUint(nilTileString, 10, 16).
nilTileMiss(mp, l, parsed) ==
    IF parsed.err = "nil"
    THEN parsed.lo
    ELSE mp.Tilesets[l.Tileset].NTiles % 65536

\* The cache after the first part of nilTile.
nilTileCached(g, mp, l, ptr) ==
    IF ptr \in DOMAIN g.nilTileCache
    THEN g
    ELSE [g EXCEPT !.nilTileCache =
            (ptr :> nilTileMiss(mp, l, ParseUint(GetProperty(l.Properties, "NilTile").value, 16)))
                @@ @]

\* The return of nilTile, a being the result of g.isAffine(l).
nilTileReturn(v, a) == [entry |-> IF a.affine THEN Uint8(v) ELSE Uint16(v), g |-> a.g]

\* func (g *GBA) nilTile(m *tmx.Map, l *tmx.Layer) interface{}: inside the
\* branch of a cache miss, nilTile := ... declares a new variable, so the
\* value returned is the outer one: the cached value, or else 0.
nilTile(g, mp, l, ptr) ==
    nilTileReturn(IF ptr \in DOMAIN g.nilTileCache THEN g.nilTileCache[ptr] ELSE 0,
                  isAffine(nilTileCached(g, mp, l, ptr), l, ptr))

\* tid with the flip bits of the tile set.
FlipBits(tile, tid) ==
    IF tile.HorizontalFlip
    THEN IF tile.VerticalFlip THEN BitOr(BitOr(tid, GBAHFlip), GBAVFlip) ELSE BitOr(tid, GBAHFlip)
    ELSE IF tile.VerticalFlip THEN BitOr(tid, GBAVFlip) ELSE tid

\* ScreenblockEntry after affine := g.isAffine(l), a being that call's result.
ScreenblockEntryOf(a, mp, l, ptr, tile) ==
    IF IsNil(tile)
    THEN nilTile(a.g, mp, l, ptr)
    ELSE IF a.affine
         THEN [entry |-> Uint8(tile.ID % 65536), g |-> a.g]
         ELSE [entry |-> Uint16(FlipBits(tile, tile.ID % 65536)), g |-> a.g]

\* func (g *GBA) ScreenblockEntry(m *tmx.Map, l *tmx.Layer, tile *tmx.DecodedTile) (interface{}, error)
ScreenblockEntry(g, mp, l, ptr, tile) ==
    ScreenblockEntryOf(isAffine(g, l, ptr), mp, l, ptr, tile)

\* binary.Write(b, binary.LittleEndian, v) of a uint8 or a uint16: the bytes.
LittleEndian(e) == IF e.bits = 8 THEN <<e.v>> ELSE <<e.v % 256, e.v \div 256>>

(***************************************************************************)
(* Do: the export of one file                                              *)
(***************************************************************************)
\* The keys of CompressionMethods.
CompressionMethods ==
    { <<"L", "Z", "7", "7">>, <<"R", "L", "E">>,
      <<"H", "u", "f", "f", "m", "a", "n", "4">>,
      <<"H", "u", "f", "f", "m", "a", "n", "8">> }

TMXExt == <<".", "t", "m", "x">>

\* filepath.Ext(path): the suffix from the last dot of the last path element.
RECURSIVE ExtFrom(_, _)
ExtFrom(path, i) ==
    IF i < 1 \/ path[i] = "/"
    THEN <<>>
    ELSE IF path[i] = "."
         THEN SubSeq(path, i, Len(path))
         ELSE ExtFrom(path, i - 1)

Ext(path) == ExtFrom(path, Len(path))

\* filenameBare := filename[:len(filename)-len(ext)-1]
FilenameBare(filename) == SubSeq(filename, 1, Len(filename) - Len(Ext(filename)) - 1)

\* name := filenameBare + "." + l.Name + ".layer"
LayerFileName(filename, l) ==
    FilenameBare(filename) \o <<".">> \o l.Name \o <<".", "l", "a", "y", "e", "r">>

\* The pointer &m.Layers[i]: layers of one map have distinct addresses, and
\* distinct from those of the maps read before, whose layers stay allocated
\* while the caches of the target point to them; base counts the layers of
\* the earlier maps.
LayerPtr(base, i) == base + i

\* The output sink: its writes fail from write number fail on (0: no write
\* fails), with the error "EIO"; a failed write stores nothing.
WriteFails(fail, n) == fail # 0 /\ n >= fail

\* The cell loop of saveLayer: one ScreenblockEntry and one binary.Write per
\* cell, i counting the cells; the error of the write is assigned and not
\* read.  r is the result of ScreenblockEntry for cell i.
RECURSIVE saveLayerLoop(_, _, _, _, _, _, _, _), saveLayerWrite(_, _, _, _, _, _, _, _)
saveLayerWrite(r, mp, l, ptr, i, entries, written, fail) ==
    saveLayerLoop(r.g, mp, l, ptr, i + 1, Append(entries, r.entry),
                  IF WriteFails(fail, i) THEN written ELSE written \o LittleEndian(r.entry),
                  fail)

saveLayerLoop(g, mp, l, ptr, i, entries, written, fail) ==
    IF i > mp.Width * mp.Height
    THEN [entries |-> entries, written |-> written, g |-> g,
          werr |-> IF WriteFails(fail, i - 1) THEN "EIO" ELSE "nil"]
    ELSE saveLayerWrite(ScreenblockEntry(g, mp, l, ptr, l.DecodedTiles[i]),
                        mp, l, ptr, i, entries, written, fail)

\* The calls of a function's defer statements in the order they run when the
\* function returns: the last one deferred first.
RECURSIVE RunDeferred(_)
RunDeferred(deferred) ==
    IF deferred = <<>>
    THEN <<>>
    ELSE RunDeferred(Tail(deferred)) \o <<Head(deferred)>>

\* The calls made on the output of a layer: writes Write calls on the sink b,
\* then the deferred calls.
CallLog(writes, deferred) == [k \in 1..writes |-> "Write"] \o RunDeferred(deferred)

Occurrences(log, c) == Cardinality({ k \in 1..Len(log) : log[k] = c })

\* What the export of one layer did: the entries ScreenblockEntry returned, the
\* bytes written to the sink b, the filter wrapped around the file ("" for
\* none), the calls made on the output (Write on the sink, b.Close on the
\* filter, w.Close on the file) and how often filter and file were closed, the
\* error of the writes that failed ("nil" when none did), the error returned.
\* deferred holds the calls of the defer statements that were executed.
Saved(mode, entries, written, filter, writes, deferred, werr, e, g) ==
    [mode |-> mode, entries |-> entries, written |-> written, filter |-> filter,
     log |-> CallLog(writes, deferred),
     filterCloses |-> Occurrences(deferred, "b.Close"),
     closes |-> Occurrences(deferred, "w.Close"), werr |-> werr, err |-> e, g |-> g]

\* saveLayer without the defer of b.Close().
saveLayerDoneNoDefer(compression, r) ==
    Saved("indexed", r.entries, r.written, compression, Len(r.entries),
          <<"w.Close">>, r.werr, "nil", r.g)

\* The return of saveLayer after the cell loop, r being the loop's result: one
\* binary.Write per entry; w.Close() was deferred first, b.Close() after it
\* when a compressor was wrapped around w.
saveLayerDone(compression, r) ==
    Saved("indexed", r.entries, r.written, compression, Len(r.entries),
          IF compression # <<>> THEN <<"w.Close", "b.Close">> ELSE <<"w.Close">>,
          r.werr, "nil", r.g)

\* saveLayer once l.Tileset is known not to be nil: mt is the result of
\* c.MaxTiles(m, l), compression the value of the Compression property.
saveLayerChecked(mt, compression, mp, l, ptr, fail) ==
    IF mp.Tilesets[l.Tileset].NTiles > mt.n
    THEN Saved("indexed", <<>>, <<>>, <<>>, 0, <<"w.Close">>, "nil", "TooManyTiles", mt.g)
    ELSE IF compression # <<>> /\ compression \notin CompressionMethods
         THEN Saved("indexed", <<>>, <<>>, <<>>, 0, <<"w.Close">>, "nil",
                    "InvalidCompressionMethod", mt.g)
         ELSE saveLayerDone(compression,
                            saveLayerLoop(mt.g, mp, l, ptr, 1, <<>>, <<>>, fail))

\* saveLayer := func(l *tmx.Layer, w io.WriteCloser) error
saveLayer(g, mp, l, ptr, fail) ==
    IF l.Tileset = 0
    THEN Saved("indexed", <<>>, <<>>, <<>>, 0, <<"w.Close">>, "nil",
               IF l.Empty THEN "EmptyLayer" ELSE "MultipleTilesets", g)
    ELSE saveLayerChecked(MaxTiles(g, l, ptr),
                          GetPropertyOfList(l.Properties, "Compression").value,
                          mp, l, ptr, fail)

\* The cell loop of saveLayerBitmap: k counts the cells, i is the bit index and
\* also the index of the cell read, d the byte being filled; a write that
\* fails ends the loop with its error.
RECURSIVE saveLayerBitmapLoop(_, _, _, _, _, _, _), saveLayerBitmapBit(_, _, _, _, _, _, _)
saveLayerBitmapBit(mp, l, k, i, d, written, fail) ==
    IF (i + 1) % 8 = 0
    THEN IF WriteFails(fail, Len(written) + 1)
         THEN [written |-> written, err |-> "EIO"]
         ELSE saveLayerBitmapLoop(mp, l, k + 1, 0, d, Append(written, d), fail)
    ELSE saveLayerBitmapLoop(mp, l, k + 1, i + 1, d, written, fail)

saveLayerBitmapLoop(mp, l, k, i, d, written, fail) ==
    IF k > mp.Width * mp.Height
    THEN [written |-> written, err |-> "nil"]
    ELSE saveLayerBitmapBit(mp, l, k, i,
                            IF l.DecodedTiles[i + 1].Nil = FALSE THEN BitOr(d, 2 ^ i) ELSE d,
                            written, fail)

\* The return of saveLayerBitmap, r being the result of its loop: one w.Write
\* per byte written and one for the write that failed; w.Close() was deferred.
saveLayerBitmapDone(g, r) ==
    Saved("bitmap", <<>>, r.written, <<>>,
          Len(r.written) + (IF r.err # "nil" THEN 1 ELSE 0), <<"w.Close">>, r.err, r.err, g)

\* saveLayerBitmap := func(l *tmx.Layer, w io.WriteCloser) error
saveLayerBitmap(g, mp, l, fail) ==
    saveLayerBitmapDone(g, saveLayerBitmapLoop(mp, l, 1, 0, 0, <<>>, fail))

\* The output file of layer i after it was saved, s being what the save did.
ExportedFile(i, name, s) ==
    [f |-> [layer |-> i, name |-> name, mode |-> s.mode, entries |-> s.entries,
            written |-> s.written, filter |-> s.filter,
            log |-> s.log, filterCloses |-> s.filterCloses, closes |-> s.closes,
            werr |-> s.werr,
            err |-> s.err],
     g |-> s.g]

\* The body of the layer loop of Do, for layer i.
ExportLayer(g, filename, mp, base, i, fail) ==
    ExportedFile(i, LayerFileName(filename, mp.Layers[i]),
                 IF GetPropertyOfList(mp.Layers[i].Properties, "Bitmap").value = StrTrue
                 THEN saveLayerBitmap(g, mp, mp.Layers[i], fail)
                 ELSE saveLayer(g, mp, mp.Layers[i], LayerPtr(base, i), fail))

\* The deferred f.Close() calls of Do, run when it returns.
DeferredClose(o) ==
    [k \in 1..Len(o) |-> [o[k] EXCEPT !.closes = @ + 1, !.log = Append(@, "w.Close")]]

(***************************************************************************)
(* Input files                                                             *)
(***************************************************************************)
MaxFailAt == 2      \* the writes of an output file fail from write 1..MaxFailAt on, or never
MaxCellBare == 3    \* bare ids 0..MaxCellBare fill the cells of the files Read is tried on

Tileset(first, n) == [FirstGID |-> first, NTiles |-> n]
Property(name, value) == [Name |-> name, Value |-> value]
XMLData(gids) == [Encoding |-> "", Compression |-> "", RawData |-> <<>>, DataTiles |-> gids]
CSVData(raw) == [Encoding |-> "csv", Compression |-> "", RawData |-> raw, DataTiles |-> <<>>]
FileLayer(name, props, data) == [Name |-> name, Properties |-> props, Data |-> data]
File(name, w, h, tilesets, layers) ==
    [Name |-> name, Width |-> w, Height |-> h, Tilesets |-> tilesets, Layers |-> layers]

Base64Data(compression, raw) ==
    [Encoding |-> "base64", Compression |-> compression, RawData |-> raw, DataTiles |-> <<>>]

Plain(b) == GID(FALSE, FALSE, FALSE, b)

\* The four bytes of a raw id, least significant first.
GIDBytes(gid) ==
    << gid.bare % 256, (gid.bare \div 256) % 256, (gid.bare \div 65536) % 256,
       (gid.bare \div 16777216) + (IF gid.D THEN 32 ELSE 0) + (IF gid.V THEN 64 ELSE 0)
           + (IF gid.H THEN 128 ELSE 0) >>

RECURSIVE BytesOfGIDs(_)
BytesOfGIDs(gids) ==
    IF gids = <<>> THEN <<>> ELSE GIDBytes(Head(gids)) \o BytesOfGIDs(Tail(gids))

\* The base64 text of a byte string, with padding.
StdChar(v) == StdEncoding[v + 1]

RECURSIVE Base64EncodeFrom(_, _)
Base64EncodeFrom(b, i) ==
    IF i > Len(b)
    THEN <<>>
    ELSE IF i = Len(b)
         THEN <<StdChar(b[i] \div 4), StdChar((b[i] % 4) * 16), "=", "=">>
         ELSE IF i + 1 = Len(b)
              THEN <<StdChar(b[i] \div 4), StdChar((b[i] % 4) * 16 + (b[i + 1] \div 16)),
                     StdChar((b[i + 1] % 16) * 4), "=">>
              ELSE <<StdChar(b[i] \div 4), StdChar((b[i] % 4) * 16 + (b[i + 1] \div 16)),
                     StdChar((b[i + 1] % 16) * 4 + (b[i + 2] \div 64)),
                     StdChar(b[i + 2] % 64)>>
                   \o Base64EncodeFrom(b, i + 3)

Base64Encode(b) == Eval(LAMBDA v : Base64EncodeFrom(v, 1), b)

\* A byte string as one stored deflate block, in a zlib and in a gzip stream.
StoredBlock(data) ==
    <<1, Len(data) % 256, Len(data) \div 256,
      (65535 - Len(data)) % 256, (65535 - Len(data)) \div 256>> \o data

ZlibStream(data) == <<120, 1>> \o StoredBlock(data) \o Adler32(data)

GzipStream(data) ==
    <<31, 139, 8, 0, 0, 0, 0, 0, 0, 255>> \o StoredBlock(data)
        \o CRC32(data) \o SizeBytes(Len(data))

CompressedOf(compression, data) ==
    CASE compression = "gzip" -> GzipStream(data)
      [] compression = "zlib" -> ZlibStream(data)
      [] OTHER                -> data

Compressed(compression, data) == Eval(LAMBDA v : CompressedOf(compression, v), data)

\* The <data> element an editor writes for a byte string: the base64 text of
\* the bytes, compressed or not, on a line of its own.
EncodedBytes(compression, data) ==
    Base64Data(compression,
               <<"\n", " ", " ">> \o Base64Encode(Compressed(compression, data)) \o <<"\n", " ">>)

\* The <data> element for an array of raw ids: four little-endian bytes per id.
EncodedGIDs(compression, gids) == EncodedBytes(compression, BytesOfGIDs(gids))

NameTMX == <<"a", "b", ".", "t", "m", "x">>
NameBG(k) == <<"B", "G", IF k = 1 THEN "1" ELSE "2">>

\* Tileset lists of the maps DecodeGID is called on directly: up to two
\* tilesets, in any order and with any overlap.
CallTilesets ==
    LET TS == { Tileset(f, n) : f \in 1..MaxFirstGID, n \in 1..3 }
    IN  {<<>>} \cup { <<t>> : t \in TS } \cup { <<t, u>> : t \in TS, u \in TS }

\* The raw ids DecodeGID is called on directly.
CallGIDs == { GID(h, v, d, b) : h \in BOOLEAN, v \in BOOLEAN, d \in BOOLEAN, b \in 0..MaxBare }

\* The raw ids of the cells of the files Read is tried on.
CellGIDs ==
    { Plain(b) : b \in 0..MaxCellBare }
        \cup { GID(TRUE, FALSE, FALSE, 1), GID(FALSE, FALSE, TRUE, 0) }

ReadTilesets ==
    { <<>>, <<Tileset(1, 2)>>, <<Tileset(1, 2), Tileset(3, 2)>>, <<Tileset(2, 2)>> }

\* Layers with a payload the decoder may reject, for a 2x2 map: csv texts and
\* an encoding that does not exist.
OddLayers ==
    { FileLayer(NameBG(2), <<>>, CSVData(<<"1", ",", "2", ",", "3", ",", "4">>)),
      FileLayer(NameBG(2), <<>>, CSVData(<<"0", ",", "0", ",", "\n", "0", ",", " ", "0">>)),
      FileLayer(NameBG(2), <<>>, CSVData(<<"1", ",", "2", ",", "3">>)),
      FileLayer(NameBG(2), <<>>, CSVData(<<"1", ",", "x", ",", "3", ",", "4">>)),
      FileLayer(NameBG(2), <<>>, [Encoding |-> "json", Compression |-> "",
                                  RawData |-> <<>>, DataTiles |-> <<>>]) }

\* base64 layers for a 2x2 map: the ids 1,2,1,2 in each compression, an
\* unknown compression, payloads of three and of five ids, one that ends a byte
\* early, and a text that is not base64.
Base64Layers ==
    { FileLayer(NameBG(1), <<>>, d) :
        d \in { EncodedGIDs(c, <<Plain(1), Plain(2), Plain(1), Plain(2)>>) :
                  c \in {"", "gzip", "zlib"} }
              \cup
              { EncodedGIDs("", <<Plain(1), Plain(2), Plain(1)>>),
                EncodedGIDs("gzip", <<Plain(1), Plain(2), Plain(1), Plain(2), Plain(1)>>),
                EncodedBytes("zlib", SubSeq(BytesOfGIDs(<<Plain(1), Plain(2), Plain(1), Plain(2)>>),
                                            1, 15)),
                Base64Data("lzma", <<"A", "A", "A", "A">>),
                Base64Data("", <<"A", "!", "A", "A">>) } }

\* 2x2 maps with a base64 layer, alone or followed by another layer.
Base64Files ==
    { File(NameTMX, 2, 2, ts, <<l>>) : ts \in ReadTilesets, l \in Base64Layers }
    \cup
    { File(NameTMX, 2, 2, ts, <<l, o>>) :
        ts \in ReadTilesets, l \in Base64Layers, o \in OddLayers \cup Base64Layers }

\* The files Read is tried on: one layer with every filling of its cells,
\* alone or followed by one of the odd layers; and the maps with base64 layers.
ReadFilesInline ==
    LET First(w, h) == { FileLayer(NameBG(1), <<>>, XMLData(c)) : c \in [1..(w * h) -> CellGIDs] }
        Single(w, h) == { File(NameTMX, w, h, ts, <<l>>) : ts \in ReadTilesets, l \in First(w, h) }
    IN  Single(1, 1) \cup Single(2, 1) \cup Single(2, 2)
        \cup
        { File(NameTMX, 2, 2, ts, <<l, o>>) :
            ts \in ReadTilesets, l \in First(2, 2), o \in OddLayers }
        \cup
        { File(NameTMX, 2, 2, ts, <<o, l>>) :
            ts \in ReadTilesets, l \in First(1, 1), o \in OddLayers }

ReadFiles == ReadFilesInline \cup Base64Files

\* Property lists of the layers Do is tried on.
StrLZ77 == <<"L", "Z", "7", "7">>
StrZstd == <<"Z", "s", "t", "d">>

ExportProperties ==
    { <<>>,
      <<Property("Bitmap", StrTrue)>>,
      <<Property("Bitmap", StrTrue), Property("Bitmap", StrTrue)>>,
      <<Property("Bitmap", StrTrue), Property("Affine", StrTrue)>>,
      <<Property("Affine", StrTrue)>>,
      <<Property("NilTile", <<"7">>)>>,
      <<Property("NilTile", <<"x">>)>>,
      <<Property("Affine", StrTrue), Property("NilTile", <<"7">>)>>,
      <<Property("Compression", StrLZ77)>>,
      <<Property("Compression", StrZstd)>>,
      <<Property("Bitmap", StrTrue), Property("Compression", StrZstd)>> }

\* The raw ids of the cells of the files Do is tried on.
ExportGIDs == { Plain(0), Plain(1), GID(TRUE, TRUE, TRUE, 2), Plain(5) }

\* Fillings of n cells: the first k cells hold a, the others b.
Fillings(n) ==
    { [p \in 1..n |-> IF p <= k THEN a ELSE b] :
        a \in ExportGIDs, b \in ExportGIDs, k \in {0, 1, n - 1} }

\* The files Do is tried on.  Maps of 4, 9 and 16 cells over one or two small
\* tilesets, with one layer of every filling and property list, alone or
\* followed by a second layer filled with one tile; 2x2 maps whose tileset
\* has a tile count around the two ceilings of the GBA target; 2x2 maps with
\* one of the odd layers; and a file whose name does not end in .tmx.
ExportFiles ==
    LET Small == { <<Tileset(1, 4)>>, <<Tileset(1, 4), Tileset(5, 4)>> }
        Large == { <<Tileset(1, n)>> : n \in {16, 255, 256, 511, 512} }
        Layer1(n) == { FileLayer(NameBG(1), ps, XMLData(c)) :
                         ps \in ExportProperties, c \in Fillings(n) }
        Layer2(n) == { FileLayer(NameBG(2), ps, XMLData([p \in 1..n |-> Plain(1)])) :
                         ps \in { <<>>, <<Property("Bitmap", StrTrue)>> } }
        Of(w, h) == { File(NameTMX, w, h, ts, <<l>>) : ts \in Small, l \in Layer1(w * h) }
                    \cup
                    { File(NameTMX, w, h, ts, <<l, k>>) :
                        ts \in Small, l \in Layer1(w * h), k \in Layer2(w * h) }
        Ceilings == { File(NameTMX, 2, 2, ts, <<FileLayer(NameBG(1), ps, XMLData(c))>>) :
                        ts \in Large, ps \in ExportProperties,
                        c \in { [p \in 1..4 |-> Plain(1)],
                                [p \in 1..4 |-> IF p = 1 THEN Plain(0) ELSE Plain(1)] } }
        Broken == { File(NameTMX, 2, 2, <<Tileset(1, 4)>>, <<l>>) : l \in OddLayers }
    IN  Of(2, 2) \cup Of(3, 3) \cup Of(4, 4) \cup Ceilings \cup Broken
        \cup { File(<<"a", "b", ".", "x", "m", "l">>, 2, 2, <<Tileset(1, 4)>>,
                    <<FileLayer(NameBG(1), <<>>, XMLData([p \in 1..4 |-> Plain(1)]))>>) }

(***************************************************************************)
(* The program: Do on one file                                             *)
(***************************************************************************)
Fresh ==
    /\ m = NoMap
    /\ li = 0
    /\ out = <<>>
    /\ err = "nil"
    /\ gba = NewGBA
    /\ call = NoCall
    /\ batch = NoBatch

\* Do, up to the layer loop: tmx.Read, then the test of the extension; r is
\* what Read returned.
DoReadStep(r) ==
    IF r.err # "nil"
    THEN /\ pc' = "done"
         /\ err' = r.err
         /\ UNCHANGED <<m, li>>
    ELSE IF Ext(file.Name) # TMXExt
         THEN /\ pc' = "done"
              /\ err' = "WrongFileExtension"
              /\ UNCHANGED <<m, li>>
         ELSE /\ pc' = "layers"
              /\ m' = r.m
              /\ li' = 1
              /\ UNCHANGED err

DoRead ==
    /\ pc = "start"
    /\ DoReadStep(Read(file))
    /\ UNCHANGED <<file, out, gba, call, batch>>

\* One pass of the layer loop of Do: the output file is opened and the layer
\* saved; an error makes Do return, which runs the deferred closes.  r is what
\* the pass did.
DoLayerStep(r) ==
    /\ gba' = r.g
    /\ IF r.f.err # "nil"
       THEN /\ out' = DeferredClose(Append(out, r.f))
            /\ err' = r.f.err
            /\ pc' = "done"
            /\ UNCHANGED li
       ELSE /\ out' = Append(out, r.f)
            /\ li' = li + 1
            /\ UNCHANGED <<err, pc>>

DoLayer ==
    /\ pc = "layers"
    /\ li <= Len(m.Layers)
    /\ \E fail \in 0..MaxFailAt : DoLayerStep(ExportLayer(gba, file.Name, m, batch.alloc, li, fail))
    /\ UNCHANGED <<file, m, call, batch>>

\* The return of Do after the last layer.
DoReturn ==
    /\ pc = "layers"
    /\ li > Len(m.Layers)
    /\ out' = DeferredClose(out)
    /\ err' = "nil"
    /\ pc' = "done"
    /\ UNCHANGED <<file, m, li, gba, call, batch>>

(***************************************************************************)
(* Direct calls of the library                                             *)
(***************************************************************************)
\* tmx.Read called on a file.
CallReadStep(r) ==
    /\ m' = r.m
    /\ err' = r.err

CallRead ==
    /\ pc = "start"
    /\ CallReadStep(Read(file))
    /\ pc' = "done"
    /\ UNCHANGED <<file, li, out, gba, call, batch>>

\* m.DecodeGID called on a loaded map.
CallDecodeGIDStep(gid, r) ==
    call' = [fn |-> "DecodeGID", gid |-> gid, tile |-> r.tile, err |-> r.err]

CallDecodeGID ==
    /\ pc = "loaded"
    /\ call = NoCall
    /\ \E gid \in CallGIDs : CallDecodeGIDStep(gid, DecodeGID(m.Tilesets, gid))
    /\ UNCHANGED <<file, m, pc, li, out, err, gba, batch>>

InitRead ==
    /\ file \in ReadFiles
    /\ pc = "start"
    /\ Fresh

NextRead == CallRead

SpecRead == InitRead /\ [][NextRead]_vars

InitDecodeGID ==
    /\ file \in { File(NameTMX, 1, 1, ts, <<>>) : ts \in CallTilesets }
    /\ m = Read(file).m
    /\ pc = "loaded"
    /\ li = 0
    /\ out = <<>>
    /\ err = "nil"
    /\ gba = NewGBA
    /\ call = NoCall
    /\ batch = NoBatch

NextDecodeGID == CallDecodeGID

SpecDecodeGID == InitDecodeGID /\ [][NextDecodeGID]_vars

MaxIds == 4         \* arrays of up to MaxIds raw ids are encoded for decodeLayer

\* The arrays of raw ids that are encoded as base64 layers: ids with every
\* byte and flip bit in use.
Base64GIDs == { Plain(0), Plain(300), GID(TRUE, FALSE, TRUE, 16909060) }
IdArrays == UNION { [1..n -> Base64GIDs] : n \in 0..MaxIds }

\* m.decodeLayer called on a layer whose <data> is the encoding of ids.
CallDecodeLayerStep(ids, compression, r) ==
    call' = [fn |-> "decodeLayer", ids |-> ids, compression |-> compression,
             gids |-> r.gids, err |-> r.err]

CallDecodeLayer ==
    /\ pc = "loaded"
    /\ call = NoCall
    /\ \E ids \in IdArrays : \E compression \in {"", "gzip", "zlib"} :
           CallDecodeLayerStep(ids, compression,
               decodeLayer(m.Width, m.Height,
                           FileLayer(NameBG(1), <<>>, EncodedGIDs(compression, ids))))
    /\ UNCHANGED <<file, m, pc, li, out, err, gba, batch>>

InitDecodeLayer ==
    /\ file \in { File(NameTMX, w, h, <<>>, <<>>) : w \in 1..2, h \in 1..2 }
    /\ m = Read(file).m
    /\ pc = "loaded"
    /\ li = 0
    /\ out = <<>>
    /\ err = "nil"
    /\ gba = NewGBA
    /\ call = NoCall
    /\ batch = NoBatch

NextDecodeLayer == CallDecodeLayer

SpecDecodeLayer == InitDecodeLayer /\ [][NextDecodeLayer]_vars

(***************************************************************************)
(* Read, one loop pass at a time                                           *)
(***************************************************************************)
\* The files Read is followed through step by step: the maps with base64
\* layers, and the one-layer maps of one or two cells.
StepFiles == Base64Files \cup { f \in ReadFilesInline : f.Width * f.Height <= 2 }

\* The map m that Read builds before it returns it: the GIDs of the layers
\* decoded so far, the DecodedTiles of the layers resolved so far, and the
\* number of calls of DecodeGID made.
ReadLocals(gids, tiles, resolved) ==
    [fn |-> "Read", gids |-> gids, tiles |-> tiles, resolved |-> resolved]

\* return nil, err
ReadFail(e) ==
    /\ m' = NoMap
    /\ err' = e
    /\ pc' = "done"
    /\ UNCHANGED li

\* One pass of the loop of decodeLayers, r being the result of decodeLayer.
ReadDecodeLayerStep(r) ==
    IF r.err # "nil"
    THEN ReadFail(r.err) /\ UNCHANGED call
    ELSE /\ call' = ReadLocals(Append(call.gids, r.gids), call.tiles, call.resolved)
         /\ li' = li + 1
         /\ UNCHANGED <<m, err, pc>>

ReadDecodeLayer ==
    /\ pc = "decode"
    /\ li <= Len(file.Layers)
    /\ ReadDecodeLayerStep(decodeLayer(file.Width, file.Height, file.Layers[li]))
    /\ UNCHANGED <<file, out, gba, batch>>

\* decodeLayers has returned nil: Read goes on to the loop that resolves the ids.
ReadDecodeLayersDone ==
    /\ pc = "decode"
    /\ li > Len(file.Layers)
    /\ pc' = "resolve"
    /\ li' = 1
    /\ UNCHANGED <<file, m, out, err, gba, call, batch>>

\* One pass of the outer loop that resolves the ids: every id of layer li, up
\* to the first that DecodeGID rejects; r is the result of the inner loop.
ReadDecodeTilesStep(r) ==
    /\ call' = ReadLocals(call.gids, Append(call.tiles, r.tiles),
                          call.resolved + Len(r.tiles) + (IF r.err # "nil" THEN 1 ELSE 0))
    /\ IF r.err # "nil"
       THEN ReadFail(r.err)
       ELSE li' = li + 1 /\ UNCHANGED <<m, err, pc>>

ReadDecodeTiles ==
    /\ pc = "resolve"
    /\ li <= Len(file.Layers)
    /\ ReadDecodeTilesStep(DecodeTilesFrom(file.Tilesets, call.gids[li], 1, <<>>))
    /\ UNCHANGED <<file, out, gba, batch>>

\* The last loop of Read and return m, nil.
ReadReturn ==
    /\ pc = "resolve"
    /\ li > Len(file.Layers)
    /\ m' = ReadResolved(file, call.gids, call.tiles)
    /\ err' = "nil"
    /\ pc' = "done"
    /\ UNCHANGED <<file, li, out, gba, call, batch>>

InitReadSteps ==
    /\ file \in StepFiles
    /\ pc = "decode"
    /\ li = 1
    /\ m = NoMap
    /\ out = <<>>
    /\ err = "nil"
    /\ gba = NewGBA
    /\ call = ReadLocals(<<>>, <<>>, 0)
    /\ batch = NoBatch

NextReadSteps == ReadDecodeLayer \/ ReadDecodeLayersDone \/ ReadDecodeTiles \/ ReadReturn

SpecReadSteps == InitReadSteps /\ [][NextReadSteps]_vars

MaxProps == 2       \* property lists of up to MaxProps entries are passed to GetProperty

\* The property lists and names GetProperty is called on directly.
CallProperties ==
    UNION { [1..n -> { Property(name, value) :
                         name \in {"Bitmap", "Affine", "NilTile"},
                         value \in {StrTrue, <<"7">>} }] : n \in 0..MaxProps }

\* GetProperty(p, name) called on a property list.
CallGetPropertyStep(p, name, r) ==
    call' = [fn |-> "GetProperty", p |-> p, name |-> name, value |-> r.value, err |-> r.err]

CallGetProperty ==
    /\ pc = "props"
    /\ call = NoCall
    /\ \E p \in CallProperties : \E name \in {"Bitmap", "Affine", "NilTile"} :
           CallGetPropertyStep(p, name, GetProperty(p, name))
    /\ UNCHANGED <<file, m, pc, li, out, err, gba, batch>>

InitGetProperty ==
    /\ file = File(NameTMX, 1, 1, <<>>, <<>>)
    /\ pc = "props"
    /\ Fresh

NextGetProperty == CallGetProperty

SpecGetProperty == InitGetProperty /\ [][NextGetProperty]_vars

(***************************************************************************)
(* Properties of DecodeGID (under SpecDecodeGID)                           *)
(***************************************************************************)
\* The tilesets are sorted ascending by first global id and their ranges
\* [FirstGID, FirstGID + NTiles) do not overlap.
SortedRanges(ts) ==
    \A i \in 1..(Len(ts) - 1) : ts[i].FirstGID + ts[i].NTiles <= ts[i + 1].FirstGID

InRange(t, bare) == t.FirstGID <= bare /\ bare < t.FirstGID + t.NTiles

\* C1: on a map whose tilesets are sorted with non-overlapping ranges, every raw
\* id whose bare id lies in the range of tileset T resolves without error to T,
\* to the local id bare - FirstGID, and to flip flags equal to the three flip
\* bits of the raw id.
C1_ResolveInRange ==
    (call.fn = "DecodeGID" /\ SortedRanges(m.Tilesets)) =>
        \A i \in 1..Len(m.Tilesets) :
            InRange(m.Tilesets[i], call.gid.bare) =>
                /\ call.err = "nil"
                /\ call.tile.Tileset = i
                /\ call.tile.ID = call.gid.bare - m.Tilesets[i].FirstGID
                /\ TileFlips(call.tile) = GIDFlips(call.gid)

\* C2: every raw id whose bare id is 0 resolves to the Nil tile without error,
\* whichever flip bits it carries.
C2_BareZeroIsNil ==
    (call.fn = "DecodeGID" /\ GIDBare(call.gid) = 0) =>
        (call.err = "nil" /\ call.tile = NilTile)

(***************************************************************************)
(* Properties of Read (under SpecRead)                                     *)
(***************************************************************************)
ReadOK == pc = "done" /\ err = "nil" /\ ~m.nil

\* Cell j of layer l is Nil: its raw id is 0.
CellIsNil(l, j) == GIDIsZero(l.GIDs[j])

Cells(l) == 1..Len(l.GIDs)

\* Every non-nil cell of l references tileset t, and there is one.
UsesOnly(l, t) ==
    /\ \E j \in Cells(l) : ~CellIsNil(l, j)
    /\ \A j \in Cells(l) : ~CellIsNil(l, j) => l.DecodedTiles[j].Tileset = t

\* C3: after a successful Read, a layer whose non-nil cells all reference the
\* same tileset T (Nil cells anywhere among them) has Tileset = T and Empty = false.
C3_SingleTileset ==
    ReadOK =>
        \A i \in 1..Len(m.Layers) : \A t \in 1..Len(m.Tilesets) :
            UsesOnly(m.Layers[i], t) =>
                (m.Layers[i].Tileset = t /\ m.Layers[i].Empty = FALSE)

\* C4: after a successful Read, a layer whose cells are all Nil has
\* Empty = true and Tileset = nil.
C4_AllNilIsEmpty ==
    ReadOK =>
        \A i \in 1..Len(m.Layers) :
            (\A j \in Cells(m.Layers[i]) : CellIsNil(m.Layers[i], j)) =>
                (m.Layers[i].Empty = TRUE /\ m.Layers[i].Tileset = 0)

\* Read succeeded on a 2x2 map with an all-Nil layer, next to a layer that is not.
C4_Witness ==
    /\ ReadOK
    /\ m.Width = 2 /\ m.Height = 2
    /\ \E i \in 1..Len(m.Layers) :
         /\ \A j \in Cells(m.Layers[i]) : CellIsNil(m.Layers[i], j)
         /\ Len(m.Layers[i].GIDs) = 4
         /\ m.Layers[i].Empty
    /\ \E i \in 1..Len(m.Layers) : ~m.Layers[i].Empty

Init ==
    /\ file \in ExportFiles
    /\ pc = "start"
    /\ Fresh

Next == DoRead \/ DoLayer \/ DoReturn

Spec == Init /\ [][Next]_vars

(***************************************************************************)
(* The program: main, Do on one file after the other                       *)
(***************************************************************************)
MaxFiles == 2       \* main is given up to MaxFiles file names

\* The files the batches are made of: 2x2 maps of one layer, normal, affine or
\* a bitmap, of tiles or empty, and a file that Read rejects.
BatchFiles ==
    { File(NameTMX, 2, 2, <<Tileset(1, 4)>>, <<FileLayer(NameBG(1), ps, XMLData(c))>>) :
        ps \in { <<>>, <<Property("Affine", StrTrue)>>, <<Property("Bitmap", StrTrue)>> },
        c \in { [p \in 1..4 |-> Plain(1)], [p \in 1..4 |-> Plain(0)],
                [p \in 1..4 |-> IF p = 1 THEN Plain(0) ELSE Plain(2)] } }
    \cup
    { File(NameTMX, 2, 2, <<Tileset(1, 4)>>,
           <<FileLayer(NameBG(1), <<>>, CSVData(<<"1", ",", "2", ",", "3">>))>>) }

\* The layers a map holds (none for the nil map).
NLayers(mp) == IF mp.nil THEN 0 ELSE Len(mp.Layers)

\* The loop of main: Do has returned, its error is logged, and Do is called on
\* the next file name with the same Console c.
MainNext ==
    /\ pc = "done"
    /\ batch.done + 1 < MaxFiles
    /\ file' \in BatchFiles
    /\ batch' = [done |-> batch.done + 1, alloc |-> batch.alloc + NLayers(m)]
    /\ m' = NoMap
    /\ li' = 0
    /\ out' = <<>>
    /\ err' = "nil"
    /\ pc' = "start"
    /\ UNCHANGED <<gba, call>>

InitBatch ==
    /\ file \in BatchFiles
    /\ pc = "start"
    /\ Fresh

NextBatch == DoRead \/ DoLayer \/ DoReturn \/ MainNext

SpecBatch == InitBatch /\ [][NextBatch]_vars

(***************************************************************************)
(* Properties of the export (under Spec)                                   *)
(***************************************************************************)
\* The layer that output file o was written for.
LayerOf(o) == m.Layers[o.layer]

\* The output files none of whose writes failed.
Sound == { k \in 1..Len(out) : out[k].werr = "nil" }

\* The value of a layer property as the property conventions define it: the
\* value when exactly one property has the name, "" otherwise.
Setting(l, name) ==
    IF Cardinality({ k \in 1..Len(l.Properties) : l.Properties[k].Name = name }) = 1
    THEN l.Properties[CHOOSE k \in 1..Len(l.Properties) : l.Properties[k].Name = name].Value
    ELSE <<>>

Affine(l) == Setting(l, "Affine") = StrTrue

\* The layer holds non-nil cells of two distinct tilesets.
Mixed(l) ==
    \E j, k \in Cells(l) :
        /\ ~CellIsNil(l, j) /\ ~CellIsNil(l, k)
        /\ l.DecodedTiles[j].Tileset # l.DecodedTiles[k].Tileset

\* C5: a layer with non-nil cells of two distinct tilesets has Tileset = nil and
\* Empty = false after Read, and its export by Do fails with MultipleTilesets.
C5_MixedRejected ==
    /\ ~m.nil =>
         \A i \in 1..Len(m.Layers) :
             Mixed(m.Layers[i]) => (m.Layers[i].Tileset = 0 /\ m.Layers[i].Empty = FALSE)
    /\ \A k \in Sound : Mixed(LayerOf(out[k])) => out[k].err = "MultipleTilesets"

\* The ceiling of the GBA target for layer l.
Ceiling(l) == IF Affine(l) THEN 255 ELSE 511

\* C6: for every layer Do exports, in either mode, an empty layer fails with
\* EmptyLayer and a layer whose tileset has more tiles than the ceiling of the
\* target fails with TooManyTiles, in both cases with no byte written.
C6_PreconditionsFirst ==
    \A k \in Sound :
        /\ LayerOf(out[k]).Empty =>
             (out[k].err = "EmptyLayer" /\ out[k].written = <<>>)
        /\ ( /\ LayerOf(out[k]).Tileset # 0
             /\ m.Tilesets[LayerOf(out[k]).Tileset].NTiles > Ceiling(LayerOf(out[k])) ) =>
             (out[k].err = "TooManyTiles" /\ out[k].written = <<>>)

\* Bit j of byte b.
Bit(b, j) == (b \div (2 ^ j)) % 2

\* C7: in bitmap mode, for every cell position p (from 0), bit p mod 8 of
\* output byte p div 8 is 1 if and only if cell p is non-nil.
C7_BitmapBits ==
    \A k \in Sound :
        out[k].mode = "bitmap" =>
            \A p \in 0..(m.Width * m.Height - 1) :
                /\ (p \div 8) + 1 <= Len(out[k].written)
                /\ Bit(out[k].written[(p \div 8) + 1], p % 8) = 1
                       <=> ~CellIsNil(LayerOf(out[k]), p + 1)

\* C8: in bitmap mode the output is ceil(width*height/8) bytes, the unused bits
\* of the last byte being 0; a 2x2 layer of non-nil cells gives the byte 15.
C8_BitmapLength ==
    \A k \in Sound :
        out[k].mode = "bitmap" =>
            /\ Len(out[k].written) = (m.Width * m.Height + 7) \div 8
            /\ \A j \in 0..7 :
                 ((Len(out[k].written) - 1) * 8 + j >= m.Width * m.Height) =>
                     Bit(out[k].written[Len(out[k].written)], j) = 0
            /\ ( /\ m.Width = 2 /\ m.Height = 2
                 /\ \A p \in Cells(LayerOf(out[k])) : ~CellIsNil(LayerOf(out[k]), p) ) =>
                 out[k].written = <<15>>

\* Output file o holds the entries of a layer that passed the preconditions.
Indexed(o) == o.mode = "indexed" /\ o.err = "nil"

\* The entry of the claim for a non-nil cell with raw id gid and local id id.
EntryOf(l, gid, id) ==
    IF Affine(l)
    THEN [bits |-> 8, v |-> id]
    ELSE [bits |-> 16,
          v |-> id + (IF gid.H THEN 1024 ELSE 0) + (IF gid.V THEN 2048 ELSE 0)]

\* C9: for every non-nil cell of a layer that passed the preconditions,
\* ScreenblockEntry returns, for a non-affine layer, the 16-bit value made of the
\* local id, bit 10 for the horizontal and bit 11 for the vertical flip, and for
\* an affine layer the 8-bit local id; the diagonal flip changes nothing.
C9_TileEntry ==
    \A k \in 1..Len(out) :
        Indexed(out[k]) =>
            \A p \in Cells(LayerOf(out[k])) :
                ( /\ ~CellIsNil(LayerOf(out[k]), p)
                  /\ InRange(m.Tilesets[LayerOf(out[k]).Tileset],
                             LayerOf(out[k]).GIDs[p].bare) ) =>
                    out[k].entries[p] =
                        EntryOf(LayerOf(out[k]), LayerOf(out[k]).GIDs[p],
                                LayerOf(out[k]).GIDs[p].bare
                                    - m.Tilesets[LayerOf(out[k]).Tileset].FirstGID)

\* The sentinel index of layer l: the NilTile property when it parses as an
\* unsigned integer, the tile count of the layer's tileset otherwise.
Sentinel(l) ==
    IF ParseUint(Setting(l, "NilTile"), 16).err = "nil"
    THEN ParseUint(Setting(l, "NilTile"), 16).lo
    ELSE m.Tilesets[l.Tileset].NTiles

\* C10: for every Nil cell of a layer exported in indexed mode, the first one
\* included, ScreenblockEntry returns the sentinel index, as one byte for an
\* affine layer and as a 16-bit value otherwise.
C10_NilEntry ==
    \A k \in 1..Len(out) :
        Indexed(out[k]) =>
            \A p \in Cells(LayerOf(out[k])) :
                CellIsNil(LayerOf(out[k]), p) =>
                    out[k].entries[p] =
                        [bits |-> IF Affine(LayerOf(out[k])) THEN 8 ELSE 16,
                         v |-> Sentinel(LayerOf(out[k]))]

\* The bytes of a sequence of entries in the byte order of the GBA target.
RECURSIVE EntriesBytes(_)
EntriesBytes(entries) ==
    IF entries = <<>>
    THEN <<>>
    ELSE LittleEndian(Head(entries)) \o EntriesBytes(Tail(entries))

\* C11: in indexed mode without compression the output of a layer is its
\* width*height entries in row-major order, entry k being ScreenblockEntry of
\* cell k in little-endian byte order: width*height*2 bytes for a normal layer,
\* width*height bytes for an affine layer.
C11_IndexedOutput ==
    \A k \in Sound :
        (Indexed(out[k]) /\ out[k].filter = <<>>) =>
            /\ Len(out[k].entries) = m.Width * m.Height
            /\ \A p \in 1..Len(out[k].entries) :
                 out[k].entries[p] =
                     ScreenblockEntry(gba, m, LayerOf(out[k]), LayerPtr(batch.alloc, out[k].layer),
                                      LayerOf(out[k]).DecodedTiles[p]).entry
            /\ out[k].written = EntriesBytes(out[k].entries)
            /\ Len(out[k].written) =
                 IF Affine(LayerOf(out[k]))
                 THEN m.Width * m.Height
                 ELSE m.Width * m.Height * 2

\* The layer asks for a compression method that is not in the registry.
UnknownMethod(l) ==
    /\ Setting(l, "Compression") # <<>>
    /\ Setting(l, "Compression") \notin CompressionMethods

\* C12: the export of a layer whose Compression property names a method outside
\* the registry fails with InvalidCompressionMethod, and no byte is written to
\* the layer's output.
C12_UnknownMethodRejected ==
    \A k \in Sound :
        UnknownMethod(LayerOf(out[k])) =>
            (out[k].err = "InvalidCompressionMethod" /\ out[k].written = <<>>)

\* The base name of a file name ending in .tmx: the name without the extension.
BaseName(filename) == SubSeq(filename, 1, Len(filename) - Len(TMXExt))

\* C17: for an input file B.tmx, Do writes the data of each layer L to the file
\* B.L.layer, B being the whole base name.
C17_LayerFileName ==
    \A k \in 1..Len(out) :
        out[k].name = BaseName(file.Name) \o <<".">> \o LayerOf(out[k]).Name
                          \o <<".", "l", "a", "y", "e", "r">>

\* The positions of the properties of list p that have the name.
Named(p, name) == { k \in 1..Len(p) : p[k].Name = name }

\* C13: GetProperty returns the value and a nil error when exactly one property
\* of the list has the name, PropertyUnavailable when none has, and
\* PropertyNotUnique when more than one has.
C13_GetProperty ==
    call.fn = "GetProperty" =>
        /\ Cardinality(Named(call.p, call.name)) = 1 =>
             /\ call.err = "nil"
             /\ \A k \in Named(call.p, call.name) : call.value = call.p[k].Value
        /\ Cardinality(Named(call.p, call.name)) = 0 => call.err = "PropertyUnavailable"
        /\ Cardinality(Named(call.p, call.name)) > 1 => call.err = "PropertyNotUnique"

\* C20: the tile DecodeGID returns for the raw id 0 has IsNil() = true, and
\* every tile it resolves to a tileset has IsNil() = false.
C20_NilFlag ==
    (call.fn = "DecodeGID" /\ call.err = "nil") =>
        /\ GIDIsZero(call.gid) => IsNil(call.tile)
        /\ call.tile.Tileset # 0 => ~IsNil(call.tile)

\* C16: when a write to the output of a layer fails, in either mode, the export
\* of that file stops there and Do returns the error of the write.
C16_WriteErrorReturned ==
    pc = "done" =>
        \A k \in 1..Len(out) :
            out[k].werr # "nil" => (err = out[k].werr /\ k = Len(out))

\* The layer pointers the caches of the target hold.
Cached == DOMAIN gba.isAffineCache \cup DOMAIN gba.nilTileCache

\* C18: in a batch of files processed with one target, no state written while
\* one file is processed is there to be read while a later file is processed:
\* the caches of the target hold entries of the layers of the current map only,
\* and the affine flag cached for a layer is the one its own properties give.
C18_NoStateAcrossFiles ==
    /\ \A ptr \in Cached : ptr > batch.alloc
    /\ ~m.nil =>
         \A i \in 1..Len(m.Layers) :
             LayerPtr(batch.alloc, i) \in DOMAIN gba.isAffineCache =>
                 gba.isAffineCache[LayerPtr(batch.alloc, i)]
                     = isAffine(NewGBA, m.Layers[i], LayerPtr(batch.alloc, i)).affine

\* C19: the export of a layer writes only its own output file and filter: the
\* export target, shared by the exports of all layers, is only read.
C19_TargetOnlyRead == [][(pc = "layers" /\ li <= Len(m.Layers)) => gba' = gba]_vars

\* The positions of the calls named c in the log of output file o.
Calls(o, c) == { q \in 1..Len(o.log) : o.log[q] = c }

\* C21: once the indexed export of a layer has wrapped its output in a
\* compressing filter, the filter is closed exactly once on every return of
\* that export, after the last write to it and before the output file is closed.
C21_FilterClosedOnce ==
    \A k \in 1..Len(out) :
        out[k].filter # <<>> =>
            /\ Cardinality(Calls(out[k], "b.Close")) = 1
            /\ \A p \in Calls(out[k], "b.Close") :
                 /\ \A q \in Calls(out[k], "Write") : q < p
                 /\ \A q \in Calls(out[k], "w.Close") : p < q

\* Do returned after a layer went through a compressor with a write that
\* failed: the entries were written, then the filter and then the file closed.
C21_Witness ==
    /\ pc = "done"
    /\ \E k \in 1..Len(out) :
         /\ out[k].filter # <<>>
         /\ out[k].werr # "nil"
         /\ Cardinality(Calls(out[k], "Write")) = m.Width * m.Height
         /\ Calls(out[k], "b.Close") = {m.Width * m.Height + 1}
         /\ m.Width * m.Height + 2 \in Calls(out[k], "w.Close")

\* C23: when Do has returned, with or without an error, every layer output
\* file it opened has been closed exactly once.
C23_ClosedOnce ==
    pc = "done" => \A k \in 1..Len(out) : out[k].closes = 1

\* The format error of one layer's <data>, from its attributes and payload:
\* perr is the error of reading the payload, n the number of ids or bytes read
\* and unit the number of them a cell takes.
CountError(f, perr, n, unit) ==
    IF perr # "nil"
    THEN "Malformed"
    ELSE IF n # f.Width * f.Height * unit THEN "InvalidDecodedDataLen" ELSE "nil"

FormatErrorOfCSV(f, r) == CountError(f, r.err, Len(r.gids), 1)
FormatErrorOfBase64(f, r) == CountError(f, r.err, Len(r.data), 4)

FormatErrorOf(f, l) ==
    IF l.Data.Encoding \notin {"csv", "base64", ""}
    THEN "UnknownEncoding"
    ELSE IF l.Data.Encoding = "base64" /\ l.Data.Compression \notin {"gzip", "zlib", ""}
         THEN "UnknownCompression"
         ELSE CASE l.Data.Encoding = "csv"    -> FormatErrorOfCSV(f, decodeCSV(l.Data))
                [] l.Data.Encoding = "base64" -> FormatErrorOfBase64(f, decodeBase64(l.Data))
                [] OTHER -> CountError(f, "nil", Len(l.Data.DataTiles), 1)

\* The ids of a layer that has no format error.
IdsOf(f, l) ==
    CASE l.Data.Encoding = "csv"    -> decodeCSV(l.Data).gids
      [] l.Data.Encoding = "base64" -> GIDsOfBytes(f.Width, f.Height, decodeBase64(l.Data).data)
      [] OTHER                      -> l.Data.DataTiles

\* A non-zero bare id smaller than every tileset's first global id.
TooSmall(f, g) ==
    g.bare # 0 /\ \A t \in 1..Len(f.Tilesets) : f.Tilesets[t].FirstGID > g.bare

HasTooSmall(f, ids) == \E j \in 1..Len(ids) : TooSmall(f, ids[j])

\* The first format error of a file in the order Read works: the layers'
\* <data> in document order, then the ids.
RECURSIVE FirstDataError(_, _)
FirstDataErrorAt(f, i, e) == IF e # "nil" THEN e ELSE FirstDataError(f, i + 1)

FirstDataError(f, i) ==
    IF i > Len(f.Layers) THEN "nil" ELSE FirstDataErrorAt(f, i, FormatErrorOf(f, f.Layers[i]))

FirstFormatErrorAfter(f, e) ==
    IF e # "nil"
    THEN e
    ELSE IF \E i \in 1..Len(f.Layers) : HasTooSmall(f, IdsOf(f, f.Layers[i]))
         THEN "InvalidGID"
         ELSE "nil"

FirstFormatError(f) == FirstFormatErrorAfter(f, FirstDataError(f, 1))

ErrorKinds == {"UnknownEncoding", "UnknownCompression", "InvalidDecodedDataLen", "InvalidGID"}

\* C14: Read fails with the kind of the first format error of the file and
\* returns no map: UnknownEncoding for an encoding other than csv, base64 or
\* empty, UnknownCompression for a base64 layer whose compression is not gzip,
\* zlib or empty, InvalidDecodedDataLen for a count of ids other than
\* width*height (a byte length other than width*height*4 for base64),
\* InvalidGID for a non-zero bare id smaller than every first global id.
C14_FirstFormatError ==
    (pc = "done" /\ FirstFormatError(file) \in ErrorKinds) =>
        (err = FirstFormatError(file) /\ m = NoMap)

\* Read failed with UnknownCompression on a file whose first layer is sound
\* base64 holding an id no tileset owns and whose second layer names an
\* unknown compression.
C14_Witness ==
    /\ pc = "done"
    /\ Len(file.Layers) = 2
    /\ file.Layers[1].Data.Encoding = "base64"
    /\ FormatErrorOf(file, file.Layers[1]) = "nil"
    /\ HasTooSmall(file, IdsOf(file, file.Layers[1]))
    /\ FormatErrorOf(file, file.Layers[2]) = "UnknownCompression"
    /\ err = "UnknownCompression"
    /\ m = NoMap

\* The payload of base64 layer l decodes to one byte less than the map needs.
ShortPayload(f, l) ==
    /\ l.Data.Encoding = "base64"
    /\ l.Data.Compression \in {"gzip", "zlib", ""}
    /\ decodeBase64(l.Data).err = "nil"
    /\ Len(decodeBase64(l.Data).data) = f.Width * f.Height * 4 - 1

\* Read holds the GIDs of every layer of the file, width*height of them each.
AllDecoded ==
    /\ Len(call.gids) = Len(file.Layers)
    /\ \A i \in 1..Len(call.gids) : Len(call.gids[i]) = file.Width * file.Height

\* C22: Read resolves no id of any layer before the payloads of all layers are
\* decoded and length-checked, and returns a nil map on any failure; a file
\* whose first faulty payload decodes to width*height*4 - 1 bytes fails with
\* InvalidDecodedDataLen with no id resolved and no map returned.
C22_DecodeBeforeResolve ==
    /\ (call.resolved > 0 \/ call.tiles # <<>>) => AllDecoded
    /\ (pc = "done" /\ err # "nil") => m = NoMap
    /\ pc = "done" =>
         \A i \in 1..Len(file.Layers) :
             ( /\ ShortPayload(file, file.Layers[i])
               /\ \A j \in 1..(i - 1) : FormatErrorOf(file, file.Layers[j]) = "nil" ) =>
                 (err = "InvalidDecodedDataLen" /\ call.resolved = 0 /\ m = NoMap)

\* Read returned on a file whose first layer decoded and whose second layer,
\* base64 with zlib, is a byte short: InvalidDecodedDataLen, no id resolved.
C22_Witness ==
    /\ pc = "done"
    /\ Len(file.Layers) = 2
    /\ FormatErrorOf(file, file.Layers[1]) = "nil"
    /\ file.Layers[2].Data.Compression = "zlib"
    /\ ShortPayload(file, file.Layers[2])
    /\ Len(call.gids) = 1
    /\ call.resolved = 0
    /\ err = "InvalidDecodedDataLen"
    /\ m = NoMap

\* C15: for every width x height array of raw ids, the base64 layer decoder
\* applied to the base64 text of the ids' little-endian bytes, plain or
\* compressed with gzip or zlib, gives GIDs equal to the array.
C15_Base64RoundTrip ==
    (call.fn = "decodeLayer" /\ Len(call.ids) = m.Width * m.Height) =>
        (call.err = "nil" /\ call.gids = call.ids)

\* A 2x2 array with an id that uses all four bytes and two flip bits went
\* through gzip and came back.
C15_Witness ==
    /\ call.fn = "decodeLayer"
    /\ call.compression = "gzip"
    /\ m.Width = 2 /\ m.Height = 2
    /\ Len(call.ids) = 4
    /\ call.ids[2] = GID(TRUE, FALSE, TRUE, 16909060)
    /\ call.ids[3] = Plain(300)
    /\ call.gids = call.ids

====
